---------------------------- MODULE Spec2Model ----------------------------
(* A model of standardize_data.py: fix_data and the three DataFrame passes *)
(* it composes (standardize_region_names, fix_mult_core,                   *)
(* standardize_CNames).                                                     *)
(*                                                                          *)
(* A Python str is a sequence of one-character strings, so that the `in`   *)
(* tests, the slices and re.match are computed as Python computes them.    *)
(* A DataFrame is a sequence of rows; each row carries its index label     *)
(* (read_csv gives the labels 0..n-1) and .loc addresses rows by label.    *)
EXTENDS Integers, Sequences, FiniteSets

VARIABLES csv, data, data2, arg, pc, pc2, warned

vars == <<csv, data, data2, arg, pc, pc2, warned>>

---------------------------------------------------------------------------
(* Bounds of the model *)

\* rows of an enumerated csv table
MaxRows == 3
\* rows of the longest table of identical core rows
MaxCores == 27
\* length of an enumerated raw Region string
MaxLen == 4
\* length of an enumerated CName string
MaxNameLen == 4

---------------------------------------------------------------------------
(* String literals of the source *)

co == <<"c", "o">>
ce == <<"c", "e">>
outsk == <<"o", "u", "t", "s", "k">>
ot == <<"o", "t">>
ic == <<"i", "c">>
ou == <<"o", "u">>
core == <<"c", "o", "r", "e">>
center == <<"c", "e", "n", "t", "e", "r">>
icl == <<"i", "c", "l">>
outer == <<"o", "u", "t", "e", "r">>
other == <<"o", "t", "h", "e", "r">>
reg == <<"r", "e", "g">>

\* the characters \d matches among those the model draws
Digits == {"0", "1", "2", "3", "4", "5", "6", "7", "8", "9"}

\* ord('A')
OrdA == 65
\* the number of cores the program was meant to handle
LetterLimit == 26

\* the characters with code points 65, 66, ..., 95 in order
Ascii ==
    <<"A", "B", "C", "D", "E", "F", "G", "H", "I", "J", "K", "L", "M",
      "N", "O", "P", "Q", "R", "S", "T", "U", "V", "W", "X", "Y", "Z",
      "[", "\\", "]", "^", "_">>

\* chr(code) for code >= ord('A')
Chr(code) == Ascii[code - OrdA + 1]

---------------------------------------------------------------------------
(* Python str operations *)

\* sub in s
Contains(s, sub) ==
    \E i \in 1..(Len(s) - Len(sub) + 1) : SubSeq(s, i, i + Len(sub) - 1) = sub

\* re.match(r"c\d", s): the pattern is matched at the start of s only
ReMatchCDigit(s) == Len(s) >= 2 /\ s[1] = "c" /\ s[2] \in Digits

\* s[-3:]
Last3(s) == SubSeq(s, IF Len(s) > 3 THEN Len(s) - 2 ELSE 1, Len(s))

\* s[:-3]
DropLast3(s) == SubSeq(s, 1, IF Len(s) > 3 THEN Len(s) - 3 ELSE 0)

---------------------------------------------------------------------------
(* DataFrame operations *)

\* pd.read_csv: the rows in file order under the default index 0..n-1
read_csv(table) ==
    [i \in 1..Len(table) |->
        [index |-> i - 1, CName |-> table[i].CName,
         Region |-> table[i].Region, R |-> table[i].R]]

\* df.loc[label, col]
LocGet(df, label, col) ==
    LET i == CHOOSE j \in 1..Len(df) : df[j].index = label
    IN  df[i][col]

\* df.loc[label, col] = val
LocSet(df, label, col, val) ==
    [i \in 1..Len(df) |->
        IF df[i].index = label THEN [df[i] EXCEPT ![col] = val] ELSE df[i]]

\* df.CName.unique(): the distinct values in order of first appearance
unique(df) ==
    LET Add(seen, v) ==
            IF \E j \in 1..Len(seen) : seen[j] = v THEN seen ELSE Append(seen, v)
        F[i \in 0..Len(df)] ==
            IF i = 0 THEN <<>> ELSE Add(F[i - 1], df[i].CName)
    IN  F[Len(df)]

\* df.set_index('CName', inplace=True): the CName column becomes the index
set_index(df) ==
    [i \in 1..Len(df) |->
        [index |-> df[i].CName, Region |-> df[i].Region, R |-> df[i].R]]

---------------------------------------------------------------------------
(* standardize_region_names *)

\* a variant of RegionLabel: the third test lacks its "ot" alternative
RegionLabel_NoOt(s) ==
    IF Contains(s, co) THEN core
    ELSE IF Contains(s, ce) THEN center
    ELSE IF Contains(s, outsk) THEN outsk
    ELSE IF Contains(s, ic) THEN icl
    ELSE IF ReMatchCDigit(s) THEN core
    ELSE IF Contains(s, ou) THEN outer
    ELSE other

\* a variant of RegionLabel: the "ou" test stands before the outsk test
RegionLabel_OuterFirst(s) ==
    IF Contains(s, co) THEN core
    ELSE IF Contains(s, ce) THEN center
    ELSE IF Contains(s, ou) THEN outer
    ELSE IF Contains(s, outsk) \/ Contains(s, ot) THEN outsk
    ELSE IF Contains(s, ic) THEN icl
    ELSE IF ReMatchCDigit(s) THEN core
    ELSE other

\* the if/elif chain applied to one Region value: the first test that holds
\* decides
RegionLabel(s) ==
    IF Contains(s, co) THEN core
    ELSE IF Contains(s, ce) THEN center
    ELSE IF Contains(s, outsk) \/ Contains(s, ot) THEN outsk
    ELSE IF Contains(s, ic) THEN icl
    ELSE IF ReMatchCDigit(s) THEN core
    ELSE IF Contains(s, ou) THEN outer
    ELSE other

\* the loop body for the label index
RegionStep(df, index) ==
    LocSet(df, index, "Region", RegionLabel(LocGet(df, index, "Region")))

\* the loop over the labels 0..max-1, one .loc assignment per row
standardize_region_names(df) ==
    LET F[k \in 0..Len(df)] == IF k = 0 THEN df ELSE RegionStep(F[k - 1], k - 1)
    IN  F[Len(df)]

---------------------------------------------------------------------------
(* standardize_CNames *)

\* a variant of CleanCName: "reg" is looked for anywhere in the value
CleanCName_Anywhere(s) == IF Contains(s, reg) THEN DropLast3(s) ELSE s

\* a variant of CleanCName: a second trailing "reg" is removed as well
CleanCName_Twice(s) ==
    IF Last3(s) = reg
    THEN IF Last3(DropLast3(s)) = reg
         THEN DropLast3(DropLast3(s))
         ELSE DropLast3(s)
    ELSE s

\* the new CName of one row
CleanCName(s) == IF Last3(s) = reg THEN DropLast3(s) ELSE s

\* the loop body for the label index
CNameStep(df, index) ==
    LocSet(df, index, "CName", CleanCName(LocGet(df, index, "CName")))

\* the loop over the labels 0..max-1
standardize_CNames(df) ==
    LET F[k \in 0..Len(df)] == IF k = 0 THEN df ELSE CNameStep(F[k - 1], k - 1)
    IN  F[Len(df)]

---------------------------------------------------------------------------
(* fix_mult_core *)

\* new_df[(new_df["CName"] == name) & (new_df["Region"] == "core")]: the
\* selected rows in table order, each with the label it has in new_df
temp_df(df, name) ==
    LET Test(r) == r.CName = name /\ r.Region = core
    IN  SelectSeq(df, Test)

\* temp_df.sort_values(by = "R") returns a sorted copy, which the caller
\* drops: temp_df itself keeps the table order
sort_values_dropped(tmp) == tmp

\* a variant of CoreLabel: the letters start one code point late
CoreLabel_OffByOne(index) == Append(core, Chr(OrdA + index + 1))

\* the label chr(ord('A') + index) appended to "core"
CoreLabel(index) == Append(core, Chr(OrdA + index))

\* the renaming loop: row index of temp_df gives its label in new_df (the
\* "index" column reset_index made) and that row of new_df is renamed
RenameCores(df, tmp) ==
    LET F[k \in 0..Len(tmp)] ==
            IF k = 0 THEN df
            ELSE LocSet(F[k - 1], tmp[k].index, "Region", CoreLabel(k - 1))
    IN  F[Len(tmp)]

\* a variant of FixGalaxy: a galaxy with a single core row is renamed too
FixGalaxy_AtLeastOne(df, name) ==
    LET tmp == sort_values_dropped(temp_df(df, name))
    IN  IF Len(tmp) > 0 THEN RenameCores(df, tmp) ELSE df

\* one iteration of the loop over galaxy_names
FixGalaxy(df, name) ==
    LET tmp == sort_values_dropped(temp_df(df, name))
    IN  IF Len(tmp) > 1 THEN RenameCores(df, tmp) ELSE df

\* the loop over galaxy_names, computed from the table before the loop
fix_mult_core(df) ==
    LET galaxy_names == unique(df)
        F[k \in 0..Len(galaxy_names)] ==
            IF k = 0 THEN df ELSE FixGalaxy(F[k - 1], galaxy_names[k])
    IN  F[Len(galaxy_names)]

\* whether fix_mult_core prints its message: some galaxy has more than 26
\* core rows
PrintsWarning(df) ==
    \E k \in 1..Len(unique(df)) : Len(temp_df(df, unique(df)[k])) > LetterLimit

---------------------------------------------------------------------------
(* Inputs *)

Row(name, region, r) == [CName |-> name, Region |-> region, R |-> r]

\* the radii drawn for R (the numeric column read from the file)
Radii == {1, 3, 5}

\* all tables of at most n rows drawn from rows
TablesOf(rows, n) == UNION {[1..k -> rows] : k \in 0..n}

\* the CName values of the csv files given to fix_data
PipelineNames ==
    {<<"A", "1">>, <<"A", "1", "r", "e", "g">>,
     <<"A", "1", "r", "e", "g", "r", "e", "g">>}

\* the raw Region values of the csv files given to fix_data
PipelineRegions == {co, outsk}

PipelineRows ==
    {Row(n, g, r) : n \in PipelineNames, g \in PipelineRegions, r \in Radii}

\* a galaxy with k rows that all read "co", k up to MaxCores
ManyCoreTables ==
    {[i \in 1..k |-> Row(n, co, r)] :
        n \in PipelineNames, r \in Radii, k \in (MaxRows + 1)..MaxCores}

CsvTables == TablesOf(PipelineRows, MaxRows) \cup ManyCoreTables

\* all strings of at most n characters of the alphabet
StringsOf(alphabet, n) == UNION {[1..k -> alphabet] : k \in 0..n}

\* raw Region values: every short string over the characters the rules test,
\* the labels the function writes, and longer sample values
RegionAlphabet == {"c", "o", "e", "u", "t", "i", "3", "x"}

RegionSamples ==
    {core, center, outer, outsk, icl, other,
     <<"o", "u", "t", "s", "k", "i", "r", "t", "s">>,
     <<"c", "e", "n", "t", "e", "r", "-", "i", "s", "h">>,
     <<"o", "u", "n", "k", "n", "o", "w", "n">>,
     <<"x", "y", "z">>, <<"C", "O", "R", "E">>,
     <<"x", "x", "c", "3", "o", "u">>}

RawRegions == StringsOf(RegionAlphabet, MaxLen) \cup RegionSamples

\* tables for standardize_region_names: a row with any raw Region, alone or
\* after a row whose Region no rule matches
RegionTables ==
    {prefix \o <<Row(<<"A", "1">>, g, 1)>> :
        g \in RawRegions,
        prefix \in {<<>>, <<Row(<<"B", "2">>, <<"x", "y", "z">>, 3)>>}}

\* CName values: every short string over the characters of the suffix in
\* both cases, and longer sample values
NameAlphabet == {"r", "e", "g", "R"}

NameSamples ==
    {<<"N", "G", "C", "1", "2", "3", "4", "r", "e", "g">>,
     <<"N", "G", "C", "1", "2", "3", "4">>,
     <<"A", "1", "r", "e", "g", "r", "e", "g">>,
     <<"A", "1", "R", "E", "G">>}

RawNames == StringsOf(NameAlphabet, MaxNameLen) \cup NameSamples

\* tables for standardize_CNames: a row with any CName, alone or after
\* another row
NameTables ==
    {prefix \o <<Row(n, g, 1)>> :
        n \in RawNames, g \in {core, outer},
        prefix \in {<<>>, <<Row(<<"A", "1", "r", "e", "g">>, core, 3)>>}}

\* tables whose Region values are already standardized
CanonicalRows ==
    {Row(n, g, r) : n \in PipelineNames, g \in {core, outer}, r \in Radii}

CanonicalTables == TablesOf(CanonicalRows, MaxRows)

---------------------------------------------------------------------------
(* fix_data: one action per statement *)

Init ==
    /\ csv \in CsvTables
    /\ data = <<>>
    /\ data2 = <<>>
    /\ arg = <<>>
    /\ pc = "read_csv"
    /\ pc2 = "idle"
    /\ warned = FALSE

ReadCsv ==
    /\ pc = "read_csv"
    /\ data' = read_csv(csv)
    /\ pc' = "standardize_region_names"
    /\ UNCHANGED <<csv, data2, arg, pc2, warned>>

StandardizeRegionNames ==
    /\ pc = "standardize_region_names"
    /\ arg' = data
    /\ data' = standardize_region_names(data)
    /\ pc' = "fix_mult_core"
    /\ UNCHANGED <<csv, data2, pc2, warned>>

FixMultCore ==
    /\ pc = "fix_mult_core"
    /\ arg' = data
    /\ data' = fix_mult_core(data)
    /\ warned' = PrintsWarning(data)
    /\ pc' = "standardize_CNames"
    /\ UNCHANGED <<csv, data2, pc2>>

StandardizeCNames ==
    /\ pc = "standardize_CNames"
    /\ arg' = data
    /\ data' = standardize_CNames(data)
    /\ pc' = "set_index"
    /\ UNCHANGED <<csv, data2, pc2, warned>>

SetIndex ==
    /\ pc = "set_index"
    /\ arg' = data
    /\ data' = set_index(data)
    /\ pc' = "return"
    /\ UNCHANGED <<csv, data2, pc2, warned>>

Next ==
    \/ ReadCsv
    \/ StandardizeRegionNames
    \/ FixMultCore
    \/ StandardizeCNames
    \/ SetIndex

Spec == Init /\ [][Next]_vars

---------------------------------------------------------------------------
(* standardize_region_names called on a table, and again on its result *)

InitRegion ==
    /\ csv \in RegionTables
    /\ data = read_csv(csv)
    /\ data2 = <<>>
    /\ arg = <<>>
    /\ pc = "region_call_1"
    /\ pc2 = "idle"
    /\ warned = FALSE

CallStandardizeRegionNames ==
    /\ pc \in {"region_call_1", "region_call_2"}
    /\ arg' = data
    /\ data' = standardize_region_names(data)
    /\ pc' = IF pc = "region_call_1" THEN "region_call_2" ELSE "region_done"
    /\ UNCHANGED <<csv, data2, pc2, warned>>

NextRegion == CallStandardizeRegionNames

SpecRegion == InitRegion /\ [][NextRegion]_vars

---------------------------------------------------------------------------
(* standardize_CNames called on a table *)

InitCNames ==
    /\ csv \in NameTables
    /\ data = read_csv(csv)
    /\ data2 = <<>>
    /\ arg = <<>>
    /\ pc = "cnames_call"
    /\ pc2 = "idle"
    /\ warned = FALSE

CallStandardizeCNames ==
    /\ pc = "cnames_call"
    /\ arg' = data
    /\ data' = standardize_CNames(data)
    /\ pc' = "cnames_done"
    /\ UNCHANGED <<csv, data2, pc2, warned>>

NextCNames == CallStandardizeCNames

SpecCNames == InitCNames /\ [][NextCNames]_vars

---------------------------------------------------------------------------
(* The two orders of fix_mult_core and standardize_CNames on one table:   *)
(* data goes through fix_mult_core then standardize_CNames, data2 through *)
(* standardize_CNames then fix_mult_core.                                 *)

InitOrder ==
    /\ csv \in CanonicalTables
    /\ data = read_csv(csv)
    /\ data2 = read_csv(csv)
    /\ arg = <<>>
    /\ pc = "fix_mult_core"
    /\ pc2 = "standardize_CNames"
    /\ warned = FALSE

CoresFirst ==
    /\ pc = "fix_mult_core"
    /\ data' = fix_mult_core(data)
    /\ warned' = (warned \/ PrintsWarning(data))
    /\ pc' = "standardize_CNames"
    /\ UNCHANGED <<csv, data2, arg, pc2>>

CNamesSecond ==
    /\ pc = "standardize_CNames"
    /\ data' = standardize_CNames(data)
    /\ pc' = "done"
    /\ UNCHANGED <<csv, data2, arg, pc2, warned>>

CNamesFirst ==
    /\ pc2 = "standardize_CNames"
    /\ data2' = standardize_CNames(data2)
    /\ pc2' = "fix_mult_core"
    /\ UNCHANGED <<csv, data, arg, pc, warned>>

CoresSecond ==
    /\ pc2 = "fix_mult_core"
    /\ data2' = fix_mult_core(data2)
    /\ warned' = (warned \/ PrintsWarning(data2))
    /\ pc2' = "done"
    /\ UNCHANGED <<csv, data, arg, pc>>

NextOrder ==
    \/ CoresFirst
    \/ CNamesSecond
    \/ CNamesFirst
    \/ CoresSecond

SpecOrder == InitOrder /\ [][NextOrder]_vars

---------------------------------------------------------------------------
(* Vocabulary used by the properties *)

Canonical5 == {core, center, outer, outsk, icl}

Canonical6 == Canonical5 \cup {other}

LettersAZ == {Ascii[k] : k \in 1..LetterLimit}

\* "core" followed by exactly one character
IsCoreSublabel(g) == Len(g) = 5 /\ SubSeq(g, 1, 4) = core

\* "core" followed by exactly one letter of A..Z
IsCoreLetter(g) == IsCoreSublabel(g) /\ g[5] \in LettersAZ

\* the position of the sublabel's character in code point order
LetterRank(g) == CHOOSE k \in 1..Len(Ascii) : Ascii[k] = g[5]

\* the rows of galaxy name in table t whose Region is "core"
CoreRowsOf(t, name) ==
    {j \in 1..Len(t) : t[j].CName = name /\ t[j].Region = core}

\* fix_mult_core has just returned inside fix_data: arg is the table it was
\* given, data the table it returned
AfterFixMultCore == pc = "standardize_CNames"

---------------------------------------------------------------------------
(* Properties of fix_mult_core inside fix_data (specification Spec) *)

\* C1: for any two "core" rows x, y of one galaxy that has 2 or more "core"
\* rows, R(x) < R(y) implies that the letter x is given is strictly smaller
\* than the letter y is given, wherever the rows stand in the table.
C1_LettersAscendWithR ==
    AfterFixMultCore =>
        \A x, y \in 1..Len(arg) :
            (/\ arg[x].CName = arg[y].CName
             /\ arg[x].Region = core
             /\ arg[y].Region = core
             /\ arg[x].R < arg[y].R)
            => (/\ IsCoreSublabel(data[x].Region)
                /\ IsCoreSublabel(data[y].Region)
                /\ LetterRank(data[x].Region) < LetterRank(data[y].Region))

\* C10: fix_mult_core changes Region only on "core" rows of a galaxy with 2
\* or more "core" rows; every other row keeps its Region, and the index,
\* CName, R, the number of rows and their order are unchanged.
C10_FixMultCoreFrame ==
    AfterFixMultCore =>
        /\ Len(data) = Len(arg)
        /\ \A i \in 1..Len(arg) :
            /\ data[i].index = arg[i].index
            /\ data[i].CName = arg[i].CName
            /\ data[i].R = arg[i].R
            /\ (data[i].Region # arg[i].Region) =>
                   (/\ arg[i].Region = core
                    /\ Cardinality(CoreRowsOf(arg, arg[i].CName)) >= 2)

\* a galaxy with two "core" rows was relabelled while the single "core" row
\* of another galaxy, standing between them, kept its Region
C10_Witness ==
    /\ AfterFixMultCore
    /\ Len(arg) = 3
    /\ arg[1].CName = arg[3].CName
    /\ arg[2].CName # arg[1].CName
    /\ \A i \in 1..3 : arg[i].Region = core
    /\ data[1].Region # core
    /\ data[3].Region # core
    /\ data[2].Region = core

---------------------------------------------------------------------------
(* Properties of the table fix_data returns (specification Spec) *)

Returned == pc = "return"

\* C2: in the returned table no two rows with the same (cleaned) CName both
\* have Region "core", and no two rows with the same CName carry the same
\* "core"+letter label.
C2_CoreLabelsUniquePerGalaxy ==
    Returned =>
        \A i, j \in 1..Len(data) :
            (i # j /\ data[i].index = data[j].index) =>
                /\ ~(data[i].Region = core /\ data[j].Region = core)
                /\ ~(IsCoreSublabel(data[i].Region)
                     /\ data[i].Region = data[j].Region)

\* C5 as stated: for every input table, whatever the number of core rows of
\* a galaxy, every Region of the returned table is one of the six labels or
\* "core" followed by one letter of A..Z.
C5_VocabularyAnyCores ==
    Returned =>
        \A i \in 1..Len(data) :
            data[i].Region \in Canonical6 \/ IsCoreLetter(data[i].Region)

\* the number of rows of the csv table with the CName of row i whose Region
\* standardize_region_names turns into "core"
CoreRowsInCsv(i) ==
    Cardinality({j \in 1..Len(csv) :
        csv[j].CName = csv[i].CName /\ RegionLabel(csv[j].Region) = core})

\* C5 (amended): for every input table in which no galaxy has more than 26
\* core rows, every Region of the returned table is one of the six labels
\* or "core" followed by one letter of A..Z.
C5_VocabularyUpTo26Cores ==
    (Returned /\ \A i \in 1..Len(csv) : CoreRowsInCsv(i) <= LetterLimit) =>
        \A i \in 1..Len(data) :
            data[i].Region \in Canonical6 \/ IsCoreLetter(data[i].Region)

\* a galaxy with exactly 26 core rows: the last one is coreZ
C5_Witness ==
    /\ Returned
    /\ Len(data) = LetterLimit
    /\ \A i \in 1..Len(csv) : CoreRowsInCsv(i) = LetterLimit
    /\ data[LetterLimit].Region = Append(core, "Z")

\* C6: no CName of the returned table ends with the three characters "reg".
C6_NoTrailingReg ==
    Returned =>
        \A i \in 1..Len(data) :
            LET s == data[i].index
            IN  ~(/\ Len(s) >= 3
                  /\ s[Len(s) - 2] = "r"
                  /\ s[Len(s) - 1] = "e"
                  /\ s[Len(s)] = "g")

---------------------------------------------------------------------------
(* Properties of standardize_region_names (specification SpecRegion) *)

\* standardize_region_names has returned: arg is the table it was given,
\* data the table it returned
AfterRegionCall == pc \in {"region_call_2", "region_done"}

\* the second call, made on the result of the first, has returned
AfterSecondRegionCall == pc = "region_done"

\* C3 as stated: each of the six labels is mapped to itself, and a second
\* run of standardize_region_names on its own output changes no row.
C3_SixFixedPoints ==
    /\ AfterRegionCall =>
           \A i \in 1..Len(arg) :
               arg[i].Region \in Canonical6 => data[i].Region = arg[i].Region
    /\ AfterSecondRegionCall => data = arg

\* C3 (amended): "core", "center", "outer", "outsk" and "icl" are mapped to
\* themselves and "other" is mapped to "outsk"; a second run on the
\* function's own output changes only the rows whose Region is "other",
\* which become "outsk".
C3_FiveFixedPoints ==
    /\ AfterRegionCall =>
           \A i \in 1..Len(arg) :
               /\ arg[i].Region \in Canonical5 => data[i].Region = arg[i].Region
               /\ arg[i].Region = other => data[i].Region = outsk
    /\ AfterSecondRegionCall =>
           /\ Len(data) = Len(arg)
           /\ \A i \in 1..Len(arg) :
                  \/ data[i] = arg[i]
                  \/ /\ arg[i].Region = other
                     /\ data[i] = [arg[i] EXCEPT !.Region = outsk]

\* the second run met an "other" row, which became "outsk", and a "center"
\* row, which it kept
C3_Witness ==
    /\ AfterSecondRegionCall
    /\ Len(arg) = 2
    /\ arg[1].Region = other
    /\ data[1].Region = outsk
    /\ arg[2].Region = center
    /\ data[2].Region = center

\* the character c immediately followed by a digit, at any position
HasCDigit(s) == \E k \in 1..(Len(s) - 1) : s[k] = "c" /\ s[k + 1] \in Digits

\* the character c immediately followed by a digit, at the start
StartsWithCDigit(s) == Len(s) >= 2 /\ s[1] = "c" /\ s[2] \in Digits

\* C8: a raw Region with none of "co", "ce", "outsk", "ot", "ic" in it and
\* with c immediately followed by a digit at any position becomes "core".
C8_CDigitAnywhereIsCore ==
    AfterRegionCall =>
        \A i \in 1..Len(arg) :
            LET s == arg[i].Region
            IN  (/\ ~Contains(s, co)
                 /\ ~Contains(s, ce)
                 /\ ~Contains(s, outsk)
                 /\ ~Contains(s, ot)
                 /\ ~Contains(s, ic)
                 /\ HasCDigit(s))
                => data[i].Region = core

---------------------------------------------------------------------------
(* Properties of standardize_CNames (specification SpecCNames) *)

\* the last three characters of s are r, e, g
EndsWithReg(s) ==
    /\ Len(s) >= 3
    /\ s[Len(s) - 2] = "r"
    /\ s[Len(s) - 1] = "e"
    /\ s[Len(s)] = "g"

---------------------------------------------------------------------------
(* The two orders compared (specification SpecOrder) *)

BothOrdersDone == pc = "done" /\ pc2 = "done"

\* C4 as stated: on every table with standardized Regions, fix_mult_core
\* then standardize_CNames gives the same table as standardize_CNames then
\* fix_mult_core.
C4_OrdersAgree == BothOrdersDone => data = data2

\* two different CNames of the table become equal when standardize_CNames
\* has run: one is the other, which does not end with "reg", followed by
\* "reg"
MergedByCleanup(t) ==
    \E i, j \in 1..Len(t) :
        /\ t[i].CName = t[j].CName \o reg
        /\ ~EndsWithReg(t[j].CName)

\* C4 (amended): on every table with standardized Regions in which no two
\* different CNames become equal by the removal of a trailing "reg", the
\* two orders give the same table.
C4_OrdersAgreeUnlessMerged ==
    (BothOrdersDone /\ ~MergedByCleanup(csv)) => data = data2

\* both passes acted: a CName lost its "reg" and a galaxy got letters
C4_Witness ==
    /\ BothOrdersDone
    /\ ~MergedByCleanup(csv)
    /\ \E i \in 1..Len(csv) : data[i].CName # csv[i].CName
    /\ \E i \in 1..Len(csv) : data[i].Region # csv[i].Region
    /\ \E i, j \in 1..Len(csv) : csv[i].CName # csv[j].CName

===========================================================================
